---- MODULE Spec2Model ----
(***************************************************************************)
(* A model of the two scripts of the repository.                           *)
(*                                                                         *)
(*   842_image.py          the boxplot stimulus generator: it seeds the    *)
(*                         shared random stream, generates 4 x 4 data      *)
(*                         sets, then writes one CSV row and one image per *)
(*                         (data set, condition).                          *)
(*   extract_element_ids.py  the HTML scraper: an HTMLParser subclass that *)
(*                         collects elementID values, and a main loop that *)
(*                         writes them to a .txt file.                     *)
(*                                                                         *)
(* Numbers.  The samples are floats in the source.  Here a sample value is *)
(* an integer number of tenths (5.0 is 50), a standard deviation is the    *)
(* exact rational Q/D under the square root (Std), and the "%.3f" column   *)
(* of the CSV is the integer number of thousandths it prints (Fmt3).       *)
(*                                                                         *)
(* Random stream.  numpy's generator is not part of the repository.  It is *)
(* modelled as a deterministic stream: a state, a step function and a      *)
(* value read off the state.  Only this is used of it: the same seed gives *)
(* the same values, and every value drawn advances the stream.             *)
(***************************************************************************)
EXTENDS Integers, Sequences, FiniteSets, TLC

VARIABLES
    pc,          \* position of the generator script
    run,         \* number of launches of the generator so far
    seed,        \* the seed given to np.random.seed
    rng,         \* state of the shared random stream
    draws,       \* log of the calls made on the stream by this run, in order
    trial_type,  \* loop variable: index into trial_types
    instance,    \* loop variable: 0-based instance index
    condition,   \* loop variable: index into conditions
    data_sets,   \* (trial type, instance) -> <<left, right>>
    left_sd,     \* standard deviation of the current left sequence
    right_sd,    \* standard deviation of the current right sequence
    more_var,    \* "Left", "Right" or "Equal"
    trial_idx,   \* global trial index
    csv,         \* what this run has written to trial_sd_log.csv, header first
    saved,       \* file names given to plt.savefig by this run, in order
    prev_csv,    \* content of trial_sd_log.csv left by the previous run
    prev_data,   \* data sets of the previous run
    spc,         \* position of the scraper's main loop
    file_no,     \* number of HTML files the scraper has started
    failed,      \* whether reading the current HTML file raised
    element_ids, \* ElementIDExtractor.element_ids of the current parser
    fed,         \* start tags handled by the current parser, in order
    txt          \* content written to the current file's .txt

genVars == <<pc, run, seed, rng, draws, trial_type, instance, condition,
             data_sets, left_sd, right_sd, more_var, trial_idx, csv, saved,
             prev_csv, prev_data>>
scrVars == <<spc, file_no, failed, element_ids, fed, txt>>
vars == <<pc, run, seed, rng, draws, trial_type, instance, condition,
          data_sets, left_sd, right_sd, more_var, trial_idx, csv, saved,
          prev_csv, prev_data, spc, file_no, failed, element_ids, fed, txt>>

----------------------------------------------------------------------------
(* Bounds of the model *)

\* The generator is launched at most MaxRuns times on the same seed.
MaxRuns == 2
\* The seeds tried are Seed .. Seed + MaxSeedOffset.
MaxSeedOffset == 1
\* The scraper takes at most MaxFiles HTML files,
MaxFiles == 2
\* each of at most MaxTags start tags.
MaxTags == 2

----------------------------------------------------------------------------
(* Constants of 842_image.py *)

Seed == 2025

conditions ==
    << <<"Jitter On", "Tukey", "Points On">>,
       <<"Jitter On", "Tukey", "Points Off">>,
       <<"Jitter On", "MinMax", "Points On">>,
       <<"Jitter On", "MinMax", "Points Off">>,
       <<"Jitter Off", "Tukey", "Points On">>,
       <<"Jitter Off", "Tukey", "Points Off">>,
       <<"Jitter Off", "MinMax", "Points On">>,
       <<"Jitter Off", "MinMax", "Points Off">> >>

trial_types ==
    <<"Different SDs", "Outlier vs No-Outlier", "Skew vs Symmetric",
      "Unequal Sample Size">>

num_instances_per_trial_type == 4

mu == 5

Header ==
    <<"TrialIdx", "TrialType", "Instance", "Jitter", "Whisker", "Points",
      "Left_SD", "Right_SD", "More_Variable">>

----------------------------------------------------------------------------
(* The shared random stream *)

\* A seeding that depends on the launch (as a clock would).
ReseedByLaunch(s) == (s + run) % 65537

\* np.random.seed(s): the stream's state after seeding.
Reseed(s) == s % 65537

\* One value drawn: the stream's next state.
NextState(s) == (75 * s + 84) % 65537

RECURSIVE States(_, _)
\* The n successive states of the stream after state s, one per value
\* drawn (built by halves).
States(s, n) ==
    IF n = 0 THEN <<>>
    ELSE IF n = 1 THEN <<NextState(s)>>
    ELSE LET h == n \div 2
             a == States(s, h)
         IN  a \o States(a[h], n - h)

\* The stream's state after n values have been drawn.
Advance(s, n) == IF n = 0 THEN s ELSE States(s, n)[n]

\* Standard normal deviates, in tenths, read off the low bits of the state.
ZTable == <<-19, -13, -10, -8, -6, -4, -2, -1, 1, 2, 4, 6, 8, 10, 13, 19>>

\* Gamma(shape 2, scale 1) deviates, in tenths.
GTable == <<2, 5, 8, 10, 12, 14, 17, 20, 23, 27, 31, 36, 42, 50, 62, 80>>

\* The n values np.random.normal(m, sigma, n) returns when the stream is in
\* state s; m in units, sigma10 and the values in tenths.
NormalFrom(s, m, sigma10, n) ==
    LET st == States(s, n)
    IN  [i \in 1..n |->
            10 * m + ((sigma10 * ZTable[(st[i] % 16) + 1]) \div 10)]

\* The n values np.random.gamma(shape=2.0, scale=1.0, size=n) returns.
GammaFrom(s, n) ==
    LET st == States(s, n)
    IN  [i \in 1..n |-> GTable[(st[i] % 16) + 1]]

\* np.random.rand() in thousandths, read off the state after the draw.
Rand(s) == NextState(s) % 1000

----------------------------------------------------------------------------
(* generate_trial_data *)

Shift(xs, d) == [i \in 1..Len(xs) |-> xs[i] + d]

\* One call on the stream, as logged in draws.
Call(op, n, key) == [op |-> op, n |-> n, key |-> key]

\* generate_trial_data(tt) with the stream in state s: the two sequences,
\* the stream's state afterwards and the sizes of the calls made on it.
generate_trial_data(tt, s) ==
    CASE tt = "Different SDs" ->
           [left  |-> NormalFrom(s, mu, 10, 50),
            right |-> NormalFrom(Advance(s, 50), mu, 20, 50),
            rng   |-> Advance(s, 100),
            calls |-> <<50, 50>>]
      [] tt = "Outlier vs No-Outlier" ->
           [left  |-> NormalFrom(s, mu, 10, 50)
                        \o <<10 * (mu + 8), 10 * (mu + 10), 10 * (mu - 8),
                             10 * (mu - 10), 10 * (mu + 12)>>,
            right |-> NormalFrom(Advance(s, 50), mu, 12, 50),
            rng   |-> Advance(s, 100),
            calls |-> <<50, 50>>]
      [] tt = "Skew vs Symmetric" ->
           [left  |-> Shift(GammaFrom(s, 50), 10 * mu - 20),
            right |-> NormalFrom(Advance(s, 50), mu, 10, 50),
            rng   |-> Advance(s, 100),
            calls |-> <<50, 50>>]
      [] tt = "Unequal Sample Size" ->
           [left  |-> NormalFrom(s, mu, 10, 80),
            right |-> NormalFrom(Advance(s, 80), mu, 12, 20),
            rng   |-> Advance(s, 100),
            calls |-> <<80, 20>>]

\* A swap written as two assignments: left = right; right = left.
SwapIfSequential(u, left, right) ==
    IF u > 500 THEN <<right, right>> ELSE <<left, right>>

\* "if np.random.rand() > 0.5: left, right = right, left", u in thousandths.
SwapIf(u, left, right) ==
    IF u > 500 THEN <<right, left>> ELSE <<left, right>>

----------------------------------------------------------------------------
(* np.std(x, ddof=1), the comparison of two of them, and "%.3f" *)

RECURSIVE SumOver(_, _, _)
\* f[lo] + ... + f[hi], by halves.
SumOver(f, lo, hi) ==
    IF lo > hi THEN 0
    ELSE IF lo = hi THEN f[lo]
    ELSE LET mid == (lo + hi) \div 2
         IN  SumOver(f, lo, mid) + SumOver(f, mid + 1, hi)

Sum(xs) == SumOver(xs, 1, Len(xs))

SumSq(xs) == SumOver([i \in 1..Len(xs) |-> xs[i] * xs[i]], 1, Len(xs))

\* The sample standard deviation of xs is sqrt(Q / D) tenths, with
\* Q = n * sum(x^2) - sum(x)^2 and D = n * (n - 1); Std(xs) is <<Q, D>>.
Std(xs) ==
    LET n == Len(xs)
    IN  <<n * SumSq(xs) - Sum(xs) * Sum(xs), n * (n - 1)>>

\* a > b for two standard deviations, by whole part and remainder of Q / D
\* (the cross products of the remainders stay below 2^31).
SdGreater(a, b) ==
    LET qa == a[1] \div a[2]
        qb == b[1] \div b[2]
    IN  \/ qa > qb
        \/ qa = qb /\ (a[1] % a[2]) * b[2] > (b[1] % b[2]) * a[2]

RECURSIVE ISqrtIn(_, _, _)
\* The largest r in lo..hi with r * r <= w, given lo * lo <= w.
ISqrtIn(w, lo, hi) ==
    IF lo = hi THEN lo
    ELSE LET mid == (lo + hi + 1) \div 2
         IN  IF mid * mid <= w THEN ISqrtIn(w, mid, hi)
             ELSE ISqrtIn(w, lo, mid - 1)

ISqrt(w) == ISqrtIn(w, 0, 46340)

\* f"{sd:.3f}" as a number of thousandths: the m nearest to 1000 * sd, sd
\* in units.  With sd = sqrt(Q / D) / 10 that is the m with
\* (2m - 1)^2 <= 40000 * Q / D < (2m + 1)^2.
\* (An exact half is rounded up; the source rounds the binary float, where
\* an exact half does not arise from a square root of these rationals.)
Fmt3(sd) ==
    LET w == 40000 * (sd[1] \div sd[2]) + ((40000 * (sd[1] % sd[2])) \div sd[2])
    IN  (ISqrt(w) + 1) \div 2

\* A label computed from the printed columns.
MoreVariableOfPrinted(l, r) ==
    IF Fmt3(l) > Fmt3(r) THEN "Left"
    ELSE IF Fmt3(r) > Fmt3(l) THEN "Right"
    ELSE "Equal"

\* Lines 112-117: the label of the more variable side.
MoreVariable(l, r) ==
    IF SdGreater(l, r) THEN "Left"
    ELSE IF SdGreater(r, l) THEN "Right"
    ELSE "Equal"

----------------------------------------------------------------------------
(* Strings and the image file name *)

\* The characters of the strings the script formats into file names.
Chars(s) ==
    CASE s = "Different SDs" ->
           <<"D", "i", "f", "f", "e", "r", "e", "n", "t", " ", "S", "D", "s">>
      [] s = "Outlier vs No-Outlier" ->
           <<"O", "u", "t", "l", "i", "e", "r", " ", "v", "s", " ", "N", "o", "-", "O", "u", "t", "l", "i", "e", "r">>
      [] s = "Skew vs Symmetric" ->
           <<"S", "k", "e", "w", " ", "v", "s", " ", "S", "y", "m", "m", "e", "t", "r", "i", "c">>
      [] s = "Unequal Sample Size" ->
           <<"U", "n", "e", "q", "u", "a", "l", " ", "S", "a", "m", "p", "l", "e", " ", "S", "i", "z", "e">>
      [] s = "Jitter On" ->
           <<"J", "i", "t", "t", "e", "r", " ", "O", "n">>
      [] s = "Jitter Off" ->
           <<"J", "i", "t", "t", "e", "r", " ", "O", "f", "f">>
      [] s = "Tukey" ->
           <<"T", "u", "k", "e", "y">>
      [] s = "MinMax" ->
           <<"M", "i", "n", "M", "a", "x">>
      [] s = "Points On" ->
           <<"P", "o", "i", "n", "t", "s", " ", "O", "n">>
      [] s = "Points Off" ->
           <<"P", "o", "i", "n", "t", "s", " ", "O", "f", "f">>
      [] s = ".png" ->
           <<".", "p", "n", "g">>

RECURSIVE Replace(_, _, _)
\* str.replace(old, new) for a one-character old; new is a sequence of
\* characters (empty to delete).
Replace(cs, old, new) ==
    IF cs = <<>> THEN <<>>
    ELSE (IF Head(cs) = old THEN new ELSE <<Head(cs)>>)
             \o Replace(Tail(cs), old, new)

DigitChars == <<"0", "1", "2", "3", "4", "5", "6", "7", "8", "9">>

RECURSIVE Digits(_)
\* The decimal digits of n >= 0, as f"{n}" prints them.
Digits(n) ==
    IF n < 10 THEN <<DigitChars[n + 1]>>
    ELSE Digits(n \div 10) \o <<DigitChars[(n % 10) + 1]>>

\* A file name without the trial index.
FilenameWithoutIndex(idx, tt, cond) ==
    Replace(Chars(tt), " ", <<"_">>) \o <<"_">>
        \o Replace(Chars(cond[1]), " ", <<>>) \o <<"_">>
        \o Chars(cond[2]) \o <<"_">>
        \o Replace(Chars(cond[3]), " ", <<>>)
        \o Chars(".png")

\* Line 77: the file name of the image of a trial.
Filename(idx, tt, cond) ==
    Digits(idx) \o <<"_">>
        \o Replace(Chars(tt), " ", <<"_">>) \o <<"_">>
        \o Replace(Chars(cond[1]), " ", <<>>) \o <<"_">>
        \o Chars(cond[2]) \o <<"_">>
        \o Replace(Chars(cond[3]), " ", <<>>)
        \o Chars(".png")

----------------------------------------------------------------------------
(* The generator script, step by step *)

Key == <<trial_types[trial_type], instance>>

\* An index that is never incremented.
KeepTrialIdx(i) == i

\* Line 129: trial_idx += 1.
IncrementTrialIdx(i) == i + 1

\* Lines 122-125: the row logged for a trial.
Row(idx, tt, inst, cond, lsd, rsd, mv) ==
    <<idx, tt, inst, cond[1], cond[2], cond[3], Fmt3(lsd), Fmt3(rsd), mv>>

\* Jitter drawn whenever points are shown.
JitterCallsIgnoringJitter(cond, left, right) ==
    IF cond[3] = "Points On" THEN <<Len(left), Len(right)>> ELSE <<>>

\* Lines 64-68: the calls plot_trial makes on the stream, as their sizes.
JitterCalls(cond, left, right) ==
    IF cond[3] = "Points On" /\ cond[1] = "Jitter On"
    THEN <<Len(left), Len(right)>>
    ELSE <<>>

RECURSIVE Logged(_, _, _)
\* The log entries of calls of the given sizes.
Logged(op, sizes, key) ==
    IF sizes = <<>> THEN <<>>
    ELSE <<Call(op, Head(sizes), key)>> \o Logged(op, Tail(sizes), key)

\* A condition loop that stops one short.
LoopNextOneShort(tt, inst, c) ==
    IF c < Len(conditions) - 1
    THEN [pc |-> "row", trial_type |-> tt, instance |-> inst, condition |-> c + 1]
    ELSE IF inst + 1 < num_instances_per_trial_type
    THEN [pc |-> "std", trial_type |-> tt, instance |-> inst + 1, condition |-> 1]
    ELSE IF tt < Len(trial_types)
    THEN [pc |-> "std", trial_type |-> tt + 1, instance |-> 0, condition |-> 1]
    ELSE [pc |-> "done", trial_type |-> tt, instance |-> inst, condition |-> c]

\* Lines 104, 105 and 120: where the three nested loops go after the body
\* has run for condition c of instance inst of trial type tt.
LoopNext(tt, inst, c) ==
    IF c < Len(conditions)
    THEN [pc |-> "row", trial_type |-> tt, instance |-> inst, condition |-> c + 1]
    ELSE IF inst + 1 < num_instances_per_trial_type
    THEN [pc |-> "std", trial_type |-> tt, instance |-> inst + 1, condition |-> 1]
    ELSE IF tt < Len(trial_types)
    THEN [pc |-> "std", trial_type |-> tt + 1, instance |-> 0, condition |-> 1]
    ELSE [pc |-> "done", trial_type |-> tt, instance |-> inst, condition |-> c]

GenInit ==
    /\ pc = "start"
    /\ run = 0
    /\ seed \in Seed .. (Seed + MaxSeedOffset)
    /\ rng = 0
    /\ draws = <<>>
    /\ trial_type = 1
    /\ instance = 0
    /\ condition = 1
    /\ data_sets = <<>>
    /\ left_sd = <<0, 1>>
    /\ right_sd = <<0, 1>>
    /\ more_var = "Equal"
    /\ trial_idx = 1
    /\ csv = <<>>
    /\ saved = <<>>
    /\ prev_csv = <<>>
    /\ prev_data = <<>>

\* Lines 7-11 and 82-83: the process starts, seeds the stream and has no
\* data set.  What the previous run left is kept in prev_csv and prev_data.
Launch ==
    /\ pc \in {"start", "done"}
    /\ run < MaxRuns
    /\ run' = run + 1
    /\ rng' = Reseed(seed)
    /\ draws' = <<>>
    /\ data_sets' = <<>>
    /\ prev_csv' = csv
    /\ prev_data' = data_sets
    /\ csv' = <<>>
    /\ saved' = <<>>
    /\ trial_type' = 1
    /\ instance' = 0
    /\ condition' = 1
    /\ trial_idx' = 1
    /\ pc' = "generate"
    /\ UNCHANGED <<seed, left_sd, right_sd, more_var>>

\* Lines 86-92: one pass of the generation loop.
GenerateDataSet ==
    /\ pc = "generate"
    /\ LET g    == generate_trial_data(trial_types[trial_type], rng)
           pair == SwapIf(Rand(g.rng), g.left, g.right)
       IN  /\ data_sets' = (Key :> pair) @@ data_sets
           /\ rng' = NextState(g.rng)
           /\ draws' = draws \o Logged("generate", g.calls, Key)
                             \o <<Call("swap", 1, Key)>>
    /\ IF instance + 1 < num_instances_per_trial_type
       THEN /\ instance' = instance + 1
            /\ UNCHANGED <<trial_type, pc>>
       ELSE IF trial_type < Len(trial_types)
       THEN /\ trial_type' = trial_type + 1
            /\ instance' = 0
            /\ UNCHANGED pc
       ELSE /\ pc' = "open"
            /\ UNCHANGED <<trial_type, instance>>
    /\ UNCHANGED <<run, seed, condition, left_sd, right_sd, more_var,
                   trial_idx, csv, saved, prev_csv, prev_data>>

\* Lines 98-105: the CSV file is opened for writing, the header is written,
\* the index starts at 1 and the loops start over the data sets.
OpenCsv ==
    /\ pc = "open"
    /\ csv' = <<Header>>
    /\ trial_idx' = 1
    /\ trial_type' = 1
    /\ instance' = 0
    /\ pc' = "std"
    /\ UNCHANGED <<run, seed, rng, draws, condition, data_sets, left_sd,
                   right_sd, more_var, saved, prev_csv, prev_data>>

\* Lines 106-120: the standard deviations and the label of one data set.
ComputeSDs ==
    /\ pc = "std"
    /\ LET l == Std(data_sets[Key][1])
           r == Std(data_sets[Key][2])
       IN  /\ left_sd' = l
           /\ right_sd' = r
           /\ more_var' = MoreVariable(l, r)
    /\ condition' = 1
    /\ pc' = "row"
    /\ UNCHANGED <<run, seed, rng, draws, trial_type, instance, data_sets,
                   trial_idx, csv, saved, prev_csv, prev_data>>

\* Lines 122-125: one row is logged.
WriteRow ==
    /\ pc = "row"
    /\ csv' = Append(csv, Row(trial_idx, trial_types[trial_type], instance,
                              conditions[condition], left_sd, right_sd,
                              more_var))
    /\ pc' = "plot"
    /\ UNCHANGED <<run, seed, rng, draws, trial_type, instance, condition,
                   data_sets, left_sd, right_sd, more_var, trial_idx, saved,
                   prev_csv, prev_data>>

\* Lines 45-71: plot_trial up to savefig; only the jitter draws touch state.
DrawJitter ==
    LET sizes == JitterCalls(conditions[condition], data_sets[Key][1],
                             data_sets[Key][2])
    IN  /\ rng' = Advance(rng, Sum(sizes))
        /\ draws' = draws \o Logged("jitter", sizes, trial_idx)

\* Lines 128-129 and the loop headers: the globals after plot_trial has
\* returned having saved the images named, with the standard deviations l
\* and r: the index grows and the loops move on.
FinishTrial(l, r, names) ==
    /\ saved' = saved \o names
    /\ left_sd' = l
    /\ right_sd' = r
    /\ trial_idx' = IncrementTrialIdx(trial_idx)
    /\ LET n == LoopNext(trial_type, instance, condition)
       IN  /\ pc' = n.pc
           /\ trial_type' = n.trial_type
           /\ instance' = n.instance
           /\ condition' = n.condition
    /\ UNCHANGED <<run, seed, data_sets, more_var, csv, prev_csv, prev_data>>

\* A plot_trial that leaves the two standard deviations exchanged.
PlotTrialExchangingSDs ==
    /\ pc = "plot"
    /\ DrawJitter
    /\ FinishTrial(right_sd, left_sd,
                   <<Filename(trial_idx, trial_types[trial_type],
                              conditions[condition])>>)

\* Line 128 with lines 45-79: the figure is drawn and saved under its file
\* name; plot_trial assigns none of the script's globals.
PlotTrial ==
    /\ pc = "plot"
    /\ DrawJitter
    /\ FinishTrial(left_sd, right_sd,
                   <<Filename(trial_idx, trial_types[trial_type],
                              conditions[condition])>>)

\* A savefig whose error is swallowed: no image, and the loop goes on.
PlotTrialFailsSilently ==
    /\ pc = "plot"
    /\ DrawJitter
    /\ FinishTrial(left_sd, right_sd, <<>>)

\* Line 78 raising: nothing handles the error, the with block closes the
\* CSV file and the process ends.
PlotTrialFails ==
    /\ pc = "plot"
    /\ DrawJitter
    /\ pc' = "aborted"
    /\ UNCHANGED <<run, seed, trial_type, instance, condition, data_sets,
                   left_sd, right_sd, more_var, trial_idx, csv, saved,
                   prev_csv, prev_data>>

----------------------------------------------------------------------------
(* extract_element_ids.py: attribute values and what json.loads makes of   *)
(* them                                                                    *)

\* A JSON scalar or container met as the value of "elementID": its type,
\* its characters when a string, its number when a number.
Json(t, cs, n) == [t |-> t, s |-> cs, n |-> n]

\* A JSON document: its top-level type, whether an object has the key
\* "elementID", and that key's value.
Doc(t, hasId, id) == [t |-> t, hasId |-> hasId, id |-> id]

NoId == Json("null", <<>>, 0)

\* An attribute value as HTMLParser hands it over: None for an attribute
\* without a value ("none"), "" ("empty"), only white space ("blank"), or
\* any other text, with the document json.loads parses it to: "error" when
\* json.loads raises JSONDecodeError, "deep" when the text nests brackets
\* deeper than the interpreter's recursion limit and json.loads raises
\* RecursionError.
Value(raw, doc) == [raw |-> raw, doc |-> doc]

NotJson == Doc("error", FALSE, NoId)

TooDeep == Doc("deep", FALSE, NoId)

ObjectWithId(id) == Doc("object", TRUE, id)

AttrValues ==
    { Value("none", NotJson),
      Value("empty", NotJson),
      Value("blank", NotJson),
      Value("text", NotJson),
      Value("text", TooDeep),
      Value("text", Doc("list", FALSE, NoId)),
      Value("text", Doc("string", FALSE, NoId)),
      Value("text", Doc("null", FALSE, NoId)),
      Value("text", Doc("object", FALSE, NoId)),
      Value("text", ObjectWithId(Json("string", <<>>, 0))),
      Value("text", ObjectWithId(Json("string", <<" ">>, 0))),
      Value("text", ObjectWithId(Json("string", <<" ", "x", " ">>, 0))),
      Value("text", ObjectWithId(Json("string", <<"y">>, 0))),
      Value("text", ObjectWithId(Json("number", <<>>, 5))),
      Value("text", ObjectWithId(Json("number", <<>>, 0))),
      Value("text", ObjectWithId(Json("null", <<>>, 0))) }

GoodX == Value("text", ObjectWithId(Json("string", <<" ", "x", " ">>, 0)))
GoodY == Value("text", ObjectWithId(Json("string", <<"y">>, 0)))

\* The start tags fed to the parser: no attribute, one attribute, or two.
Tags ==
    LET first  == {<<"data-rbd-draggable-id", v>> : v \in AttrValues}
                      \cup {<<"class", GoodX>>}
        second == {<<"data-rbd-draggable-id", GoodY>>, <<"id", GoodX>>}
    IN  {<<>>} \cup {<<a>> : a \in first}
               \cup {<<a, b>> : a \in first, b \in second}

RECURSIVE LStrip(_)
LStrip(cs) ==
    IF cs # <<>> /\ Head(cs) = " " THEN LStrip(Tail(cs)) ELSE cs

RECURSIVE RStrip(_)
RStrip(cs) ==
    IF cs # <<>> /\ cs[Len(cs)] = " "
    THEN RStrip(SubSeq(cs, 1, Len(cs) - 1))
    ELSE cs

\* str.strip()
Strip(cs) == RStrip(LStrip(cs))

\* bool(x) for the value of "elementID".
Truthy(j) ==
    CASE j.t = "string" -> j.s # <<>>
      [] j.t = "number" -> j.n # 0
      [] OTHER -> FALSE

\* Lines 29-33, the body of the try: the ids afterwards, and the exception
\* raised ("none" when the body runs to its end).
TryBody(ids, value) ==
    IF value.doc.t = "error"
    THEN [exc |-> "JSONDecodeError", ids |-> ids]
    ELSE IF value.doc.t = "deep"
    THEN [exc |-> "RecursionError", ids |-> ids]
    ELSE IF value.doc.t # "object"
    THEN [exc |-> "AttributeError", ids |-> ids]
    ELSE LET element_id == IF value.doc.hasId THEN value.doc.id
                           ELSE Json("string", <<>>, 0)
         IN  IF ~Truthy(element_id)
             THEN [exc |-> "none", ids |-> ids]
             ELSE IF element_id.t # "string"
             THEN [exc |-> "AttributeError", ids |-> ids]
             ELSE IF Strip(element_id.s) = <<>>
             THEN [exc |-> "none", ids |-> ids]
             ELSE [exc |-> "none",
                   ids |-> Append(ids, Strip(element_id.s))]

\* Line 34: the exceptions the except clause catches.
Caught == {"JSONDecodeError", "AttributeError"}

\* Lines 26-36: one pass of the loop over attrs.
HandleAttr(ids, attr) ==
    IF attr[1] = "data-rbd-draggable-id" /\ attr[2].raw = "text"
    THEN LET r == TryBody(ids, attr[2])
         IN  IF r.exc \in Caught THEN [exc |-> "none", ids |-> r.ids]
             ELSE r
    ELSE [exc |-> "none", ids |-> ids]

RECURSIVE handle_starttag(_, _)
\* Lines 23-36: the ids after the attributes of one start tag, and the
\* exception that leaves the handler, if any.
handle_starttag(ids, attrs) ==
    IF attrs = <<>> THEN [exc |-> "none", ids |-> ids]
    ELSE LET r == HandleAttr(ids, Head(attrs))
         IN  IF r.exc # "none" THEN r
             ELSE handle_starttag(r.ids, Tail(attrs))

RECURSIVE Lines(_)
\* Lines 83-84: what the loop of writes puts in the file.
Lines(ids) ==
    IF ids = <<>> THEN <<>>
    ELSE Head(ids) \o <<"\n">> \o Lines(Tail(ids))

\* Lines 47 and 75-77: main takes the next HTML file and extract_element_ids
\* makes a new parser for it.
BeginFile ==
    /\ spc \in {"idle", "written"}
    /\ file_no < MaxFiles
    /\ file_no' = file_no + 1
    /\ element_ids' = <<>>
    /\ fed' = <<>>
    /\ failed' = FALSE
    /\ txt' = <<>>
    /\ spc' = "parsing"

\* Lines 49-55: open or read raises before anything is fed.
ReadFails ==
    /\ spc = "parsing"
    /\ fed = <<>>
    /\ ~failed
    /\ failed' = TRUE
    /\ UNCHANGED <<spc, file_no, element_ids, fed, txt>>

\* Line 52 reaching a start tag: HTMLParser calls handle_starttag.  An
\* exception leaving the handler leaves feed and is caught on line 53, and
\* the tags after it are never handled.
HandleStartTag(attrs) ==
    /\ spc = "parsing"
    /\ ~failed
    /\ Len(fed) < MaxTags
    /\ LET r == handle_starttag(element_ids, attrs)
       IN  /\ element_ids' = r.ids
           /\ failed' = (r.exc # "none")
    /\ fed' = Append(fed, attrs)
    /\ UNCHANGED <<spc, file_no, txt>>

\* Lines 55, 57 and 77-84: extract_element_ids returns and main writes the
\* .txt file.
WriteTxt ==
    /\ spc = "parsing"
    /\ txt' = Lines(IF failed THEN <<>> ELSE element_ids)
    /\ spc' = "written"
    /\ UNCHANGED <<file_no, failed, element_ids, fed>>

ScrIdle ==
    /\ spc = "idle"
    /\ file_no = 0
    /\ failed = FALSE
    /\ element_ids = <<>>
    /\ fed = <<>>
    /\ txt = <<>>

Init == GenInit /\ ScrIdle

Next ==
    \/ Launch /\ UNCHANGED scrVars
    \/ GenerateDataSet /\ UNCHANGED scrVars
    \/ OpenCsv /\ UNCHANGED scrVars
    \/ ComputeSDs /\ UNCHANGED scrVars
    \/ WriteRow /\ UNCHANGED scrVars
    \/ PlotTrial /\ UNCHANGED scrVars
    \/ PlotTrialFails /\ UNCHANGED scrVars

\* The stimulus generator.
Spec == Init /\ [][Next]_vars

ScraperInit == Init /\ seed = Seed

ScraperNext ==
    \/ BeginFile /\ UNCHANGED genVars
    \/ ReadFails /\ UNCHANGED genVars
    \/ (\E attrs \in Tags : HandleStartTag(attrs)) /\ UNCHANGED genVars
    \/ WriteTxt /\ UNCHANGED genVars

\* The HTML scraper.
ScraperSpec == ScraperInit /\ [][ScraperNext]_vars

----------------------------------------------------------------------------
(* Properties of the stimulus generator (checked under Spec) *)

\* The data rows written so far: the CSV without its header.
DataRows == IF csv = <<>> THEN <<>> ELSE Tail(csv)

NumDataSets == Len(trial_types) * num_instances_per_trial_type

NumTrials == NumDataSets * Len(conditions)

\* The trial index of condition c (1-based) of instance inst of trial type
\* number t, counting as the claims do.
TrialOf(t, inst, c) ==
    ((t - 1) * num_instances_per_trial_type + inst) * Len(conditions) + c

\* The rows of one data set, as indices into DataRows.
RowsOf(key) ==
    {i \in 1..Len(DataRows) : DataRows[i][2] = key[1] /\ DataRows[i][3] = key[2]}

\* C1: the i-th data row always carries TrialIdx i (the index starts at 1
\* and grows by 1 with every row), and a complete run leaves exactly
\* 4 x 4 x 8 = 128 data rows and 128 images.
C1_RowsAreOneTo128 ==
    /\ \A i \in 1..Len(DataRows) : DataRows[i][1] = i
    /\ pc = "done" =>
          /\ NumTrials = 128
          /\ Len(DataRows) = NumTrials
          /\ Len(saved) = NumTrials

C1_Witness ==
    /\ pc = "done"
    /\ Len(DataRows) = 128
    /\ DataRows[1][1] = 1
    /\ DataRows[128][1] = 128

\* C2: after a complete run, the row of trial index TrialOf(t, inst, c) is
\* the row of data set (t, inst) under the c-th condition of the constant
\* list, so the 8 rows of a data set are consecutive and in list order;
\* every (data set, condition) pair has exactly one row, every trial has
\* one image, and every trial type has 32 rows.
C2_EveryPairOnceInOrder ==
    pc = "done" =>
      /\ Len(saved) = Len(DataRows)
      /\ \A t \in 1..Len(trial_types) :
           /\ Cardinality({i \in 1..Len(DataRows) :
                              DataRows[i][2] = trial_types[t]}) = 32
           /\ \A inst \in 0..(num_instances_per_trial_type - 1) :
                \A c \in 1..Len(conditions) :
                  LET k == TrialOf(t, inst, c)
                  IN  /\ k <= Len(DataRows)
                      /\ DataRows[k][2] = trial_types[t]
                      /\ DataRows[k][3] = inst
                      /\ <<DataRows[k][4], DataRows[k][5], DataRows[k][6]>>
                            = conditions[c]
                      /\ Cardinality(
                           {i \in RowsOf(<<trial_types[t], inst>>) :
                              <<DataRows[i][4], DataRows[i][5], DataRows[i][6]>>
                                 = conditions[c]}) = 1

C2_Witness ==
    /\ pc = "done"
    /\ Cardinality(RowsOf(<<"Unequal Sample Size", 3>>)) = 8
    /\ DataRows[TrialOf(4, 3, 8)][4] = "Jitter Off"
    /\ DataRows[TrialOf(4, 3, 8)][6] = "Points Off"

\* C3: the Left_SD and Right_SD of every row are the standard deviations of
\* the stored left and right sequences of the row's data set, so the rows
\* of one data set all record the same two values, whatever was rendered
\* between them.
C3_SameSDsAcrossConditions ==
    \A key \in DOMAIN data_sets :
      LET l == Fmt3(Std(data_sets[key][1]))
          r == Fmt3(Std(data_sets[key][2]))
      IN  \A i \in RowsOf(key) :
            /\ DataRows[i][7] = l
            /\ DataRows[i][8] = r
            /\ \A j \in RowsOf(key) :
                 /\ DataRows[j][7] = DataRows[i][7]
                 /\ DataRows[j][8] = DataRows[i][8]

\* All 8 rows of a data set are written, two of them after a rendering
\* that drew jitter from the stream.
C3_Witness ==
    /\ Cardinality(RowsOf(<<"Different SDs", 0>>)) = 8
    /\ Len(draws) > 3 * NumDataSets
    /\ DataRows[1][7] # DataRows[1][8]

RecipeLengths(tt) ==
    CASE tt = "Unequal Sample Size" -> {80, 20}
      [] tt = "Outlier vs No-Outlier" -> {55, 50}
      [] OTHER -> {50}

\* C5: the two sequences of every stored data set have, in one order or
\* the other, the lengths of its trial type's recipe: {80, 20}, {55, 50} or
\* {50, 50}.
C5_LengthsFixedByTrialType ==
    \A key \in DOMAIN data_sets :
      /\ {Len(data_sets[key][1]), Len(data_sets[key][2])} = RecipeLengths(key[1])
      /\ Len(data_sets[key][1]) + Len(data_sets[key][2])
            = (IF key[1] = "Outlier vs No-Outlier" THEN 105 ELSE 100)

\* Both outcomes of the swap draw are stored for the two trial types with
\* unequal lengths.
C5_Witness ==
    /\ \E i \in 0..3 : /\ <<"Unequal Sample Size", i>> \in DOMAIN data_sets
                       /\ Len(data_sets[<<"Unequal Sample Size", i>>][1]) = 80
    /\ \E i \in 0..3 : /\ <<"Unequal Sample Size", i>> \in DOMAIN data_sets
                       /\ Len(data_sets[<<"Unequal Sample Size", i>>][1]) = 20
    /\ \E i \in 0..3 : /\ <<"Outlier vs No-Outlier", i>> \in DOMAIN data_sets
                       /\ Len(data_sets[<<"Outlier vs No-Outlier", i>>][1]) = 55
    /\ \E i \in 0..3 : /\ <<"Outlier vs No-Outlier", i>> \in DOMAIN data_sets
                       /\ Len(data_sets[<<"Outlier vs No-Outlier", i>>][2]) = 55

RECURSIVE SplitOn(_, _)
SplitOn(cs, sep) ==
    IF \A i \in 1..Len(cs) : cs[i] # sep THEN <<cs>>
    ELSE LET i == CHOOSE j \in 1..Len(cs) :
                     cs[j] = sep /\ \A k \in 1..(j - 1) : cs[k] # sep
         IN  <<SubSeq(cs, 1, i - 1)>> \o SplitOn(SubSeq(cs, i + 1, Len(cs)), sep)

\* The fields f[a..b] joined by the separator again.
RECURSIVE JoinWith(_, _, _, _)
JoinWith(f, a, b, sep) ==
    IF a > b THEN <<>>
    ELSE IF a = b THEN f[a]
    ELSE f[a] \o <<sep>> \o JoinWith(f, a + 1, b, sep)

\* The number a sequence of decimal digits writes, -1 if it is no such
\* sequence.
ParseInt(cs) ==
    LET val(c) == CHOOSE d \in 0..9 : DigitChars[d + 1] = c
        part[k \in 0..Len(cs)] ==
            IF k = 0 THEN 0 ELSE 10 * part[k - 1] + val(cs[k])
    IN  IF cs = <<>> \/ \E i \in 1..Len(cs) :
                           \A d \in 1..10 : DigitChars[d] # cs[i]
        THEN -1
        ELSE part[Len(cs)]

NoSpaces(cs) == SelectSeq(cs, LAMBDA c : c # " ")

Underscored(cs) == [i \in 1..Len(cs) |-> IF cs[i] = " " THEN "_" ELSE cs[i]]

\* The file name of the k-th image saved names the trial of the k-th row.
NameMatchesRow(k) ==
    LET f   == SplitOn(saved[k], "_")
        n   == Len(f)
        row == DataRows[k]
    IN  /\ n >= 5
        /\ ParseInt(f[1]) = row[1]
        /\ JoinWith(f, 2, n - 3, "_") = Underscored(Chars(row[2]))
        /\ f[n - 2] = NoSpaces(Chars(row[4]))
        /\ f[n - 1] = Chars(row[5])
        /\ f[n] = NoSpaces(Chars(row[6])) \o <<".", "p", "n", "g">>

\* C7: the name of the k-th image saved reads
\* {index}_{type, spaces as underscores}_{jitter without spaces}_{whisker}_
\* {points without spaces}.png with the index, type and condition of the
\* k-th CSV row, and no two images of a run have the same name.
C7_FilenameNamesItsTrial ==
    /\ Len(saved) <= Len(DataRows)
    /\ \A k \in 1..Len(saved) :
         /\ NameMatchesRow(k)
         /\ \A j \in 1..Len(saved) : j # k => saved[j] # saved[k]

\* Two images of the same trial type under the same condition (two
\* instances) are saved, under different names.
C7_Witness ==
    /\ Len(saved) >= 9
    /\ DataRows[1][2] = DataRows[9][2]
    /\ DataRows[1][4] = DataRows[9][4]
    /\ DataRows[1][5] = DataRows[9][5]
    /\ DataRows[1][6] = DataRows[9][6]
    /\ saved[1] # saved[9]
    /\ saved[1] = <<"1", "_", "D", "i", "f", "f", "e", "r", "e", "n", "t", "_",
                    "S", "D", "s", "_", "J", "i", "t", "t", "e", "r", "O", "n",
                    "_", "T", "u", "k", "e", "y", "_", "P", "o", "i", "n", "t",
                    "s", "O", "n", ".", "p", "n", "g">>

\* The key of the j-th data set generated, j from 0, in trial-type-major
\* then instance order.
KeyOfDataSet(j) ==
    <<trial_types[(j \div num_instances_per_trial_type) + 1],
      j % num_instances_per_trial_type>>

JitterOnAndPointsOn(row) == row[4] = "Jitter On" /\ row[6] = "Points On"

\* The calls on the stream come in this order: for the j-th data set its
\* generation calls (two) then one swap draw; all of these before the CSV
\* or any image exists; then only jitter calls, two for each trial rendered
\* with jitter and points both on, none for the others; and the stream has
\* advanced by the values these calls drew.
C9_DrawsInOrder ==
    /\ \A i \in 1..Len(draws) :
         IF i <= 3 * NumDataSets
         THEN /\ draws[i].op = (IF i % 3 = 0 THEN "swap" ELSE "generate")
              /\ draws[i].key = KeyOfDataSet((i - 1) \div 3)
              /\ i % 3 = 0 => draws[i].n = 1
         ELSE /\ draws[i].op = "jitter"
              /\ draws[i].key \in 1..Len(DataRows)
              /\ JitterOnAndPointsOn(DataRows[draws[i].key])
    /\ pc = "generate" => Len(draws) = 3 * Cardinality(DOMAIN data_sets)
    /\ (csv # <<>> \/ saved # <<>>) =>
          /\ Len(draws) >= 3 * NumDataSets
          /\ DOMAIN data_sets = {KeyOfDataSet(j) : j \in 0..(NumDataSets - 1)}
    /\ \A k \in 1..Len(saved) :
         Cardinality({i \in 1..Len(draws) :
                         draws[i].op = "jitter" /\ draws[i].key = k})
            = (IF JitterOnAndPointsOn(DataRows[k]) THEN 2 ELSE 0)
    /\ run >= 1 =>
          rng = Advance(Reseed(seed),
                        SumOver([i \in 1..Len(draws) |-> draws[i].n], 1,
                                Len(draws)))

\* Within a run a data set, once stored, stays as it was stored.
C9_StoredDataSetsStay ==
    run' = run =>
      \A key \in DOMAIN data_sets :
        key \in DOMAIN data_sets' /\ data_sets'[key] = data_sets[key]

\* C9: the draws on the shared stream are made in the order C9_DrawsInOrder
\* states, and no step of a run changes a stored data set.
C9_DrawOrder == []C9_DrawsInOrder /\ [][C9_StoredDataSetsStay]_vars

\* A complete run: 3 calls for each of the 16 data sets and 2 jitter calls
\* for each of the 32 trials with jitter and points on.
C9_Witness ==
    /\ pc = "done"
    /\ Len(draws) = 48 + 64
    /\ draws[49].op = "jitter"
    /\ draws[49].key = 1
    /\ draws[51].key = 3

\* In every state the rows written are as many as the images saved, or one
\* more, and one more exactly while an image is being made or when making
\* it has failed; after an abort
\* at trial k the rows are those of trials 1..k and the images those of
\* trials 1..k-1, and the run has stopped.
C10_RowsLeadImagesByOne ==
    /\ Len(DataRows) - Len(saved) \in {0, 1}
    /\ pc \in {"plot", "aborted"} <=> Len(DataRows) - Len(saved) = 1
    /\ \A i \in 1..Len(DataRows) : DataRows[i][1] = i /\ i <= trial_idx
    /\ pc = "aborted" =>
          /\ Len(DataRows) = trial_idx
          /\ Len(saved) = trial_idx - 1
          /\ \A k \in 1..Len(saved) : ParseInt(SplitOn(saved[k], "_")[1]) = k
          /\ ~ENABLED Next

\* The step that aborts the run writes no row, saves no image and leaves
\* the rows and images already written as they are.
C10_AbortWritesNothing ==
    pc' = "aborted" => csv' = csv /\ saved' = saved

\* C10: the row of trial k is written before image k is saved, and a
\* failure to save image k ends the run with rows 1..k and images 1..k-1.
C10_AbortAtImageWrite ==
    []C10_RowsLeadImagesByOne /\ [][C10_AbortWritesNothing]_vars

\* An abort at trial 3: three rows, two images.
C10_Witness ==
    /\ pc = "aborted"
    /\ trial_idx = 3
    /\ Len(DataRows) = 3
    /\ Len(saved) = 2

----------------------------------------------------------------------------
(* Properties of the HTML scraper (checked under ScraperSpec) *)

\* The attributes of the tags, in document order.
RECURSIVE AllAttrs(_)
AllAttrs(tags) ==
    IF tags = <<>> THEN <<>> ELSE Head(tags) \o AllAttrs(Tail(tags))

\* cs from its first to its last character that is not a space.
Trimmed(cs) ==
    LET at == {i \in 1..Len(cs) : cs[i] # " "}
    IN  IF at = {} THEN <<>>
        ELSE SubSeq(cs, CHOOSE i \in at : \A j \in at : i <= j,
                        CHOOSE i \in at : \A j \in at : i >= j)

\* A data-rbd-draggable-id attribute whose value parses as a JSON object
\* with a string elementID that is not empty once trimmed.
Qualifies(attr) ==
    /\ attr[1] = "data-rbd-draggable-id"
    /\ attr[2].raw = "text"
    /\ attr[2].doc.t = "object"
    /\ attr[2].doc.hasId
    /\ attr[2].doc.id.t = "string"
    /\ Trimmed(attr[2].doc.id.s) # <<>>

ExpectedIds(tags) ==
    LET q == SelectSeq(AllAttrs(tags), Qualifies)
    IN  [i \in 1..Len(q) |-> Trimmed(q[i][2].doc.id.s)]

\* The lines of a text in which every line ends with a newline.
LinesOf(text) ==
    LET f == SplitOn(text, "\n")
    IN  SubSeq(f, 1, Len(f) - 1)

\* C8: whatever start tags were handled, no exception left the handler
\* (reading fails only before the first tag), element_ids is, in document
\* order, the trimmed elementID of every qualifying attribute and of
\* nothing else, and the .txt file written for the HTML file holds these
\* ids, one per line.
C8_ElementIdsAreTheQualifying ==
    /\ failed => fed = <<>>
    /\ element_ids = ExpectedIds(fed)
    /\ spc = "written" /\ fed # <<>> =>
          /\ LinesOf(txt) = ExpectedIds(fed)
          /\ txt # <<>> => txt[Len(txt)] = "\n"

====
